---- MODULE Spec2Model ----
(***************************************************************************)
(* Model of posthog/api/hogql_query.py: the HogQLQueryViewSet.run handler  *)
(* and the memoized feature check check_team_api_queries_concurrency.      *)
(*                                                                         *)
(* Python values are modelled as strings ("None", "True", "False") or as   *)
(* records of a fixed shape, message texts as sequences of tokens.         *)
(***************************************************************************)
EXTENDS Integers, Sequences, FiniteSets, TLC

\* ------------------------------------------------------------------ bounds
MaxMsgLen == 3
NumCallers == 2

\* ----------------------------------------------------------- Python values
None == "None"
PyTrue == "True"
PyFalse == "False"

\* ------------------------------------------------------------ message text
\* A text is a sequence of tokens: the two fragments the column pattern
\* looks for, a newline (which '.' does not match) and any other text.
NO_COLUMN == "There's no column"
IN_TABLE == "in table"
NEWLINE == "\n"
SOME_TEXT == "x"
Tokens == {NO_COLUMN, IN_TABLE, NEWLINE, SOME_TEXT}
Texts == UNION {[1..n -> Tokens] : n \in 0..MaxMsgLen}

ONLY_HOGQL == <<"This endpoint only supports HogQLQuery">>
ONLY_SYNC == <<"only sync modes are supported (refresh param)">>
BETA_NOTE == ". Note: While in beta, not all column types may be fully supported"

\* ---------------------------------------------------------------- failures
\* An exception object: its class, str(e), its optional 'message' attribute
\* and its optional 'code_name' attribute (the 'code' of a ValidationError).
EngineErrorTypes == {"ExposedHogQLError", "ExposedCHQueryError", "HogVMException"}
RaisedTypes == EngineErrorTypes \cup {"ResolutionError", "ConcurrencyLimitExceeded", "Exception"}
StrTexts == {<<SOME_TEXT>>, <<NO_COLUMN, SOME_TEXT, IN_TABLE>>}
CodeNames == {None, "illegal_type_of_argument"}

Exceptions ==
    {[type |-> t, str |-> s, has_message |-> TRUE, message |-> m, code_name |-> c] :
        t \in RaisedTypes, s \in StrTexts, m \in Texts, c \in CodeNames}
    \cup
    {[type |-> t, str |-> s, has_message |-> FALSE, message |-> <<>>, code_name |-> c] :
        t \in RaisedTypes, s \in StrTexts, c \in CodeNames}

NoExc == [type |-> "none", str |-> <<>>, has_message |-> FALSE, message |-> <<>>, code_name |-> None]

\* rest_framework.exceptions.ValidationError(detail, code): no 'message' attribute
ValidationError(detail, code) ==
    [type |-> "ValidationError", str |-> detail, has_message |-> FALSE, message |-> <<>>, code_name |-> code]

\* rest_framework.exceptions.Throttled(detail=...)
Throttled(detail) ==
    [type |-> "Throttled", str |-> detail, has_message |-> FALSE, message |-> <<>>, code_name |-> None]

\* ------------------------------------------------- the column-pattern regex
SetMin(S) == CHOOSE x \in S : \A y \in S : x <= y
SetMax(S) == CHOOSE x \in S : \A y \in S : x >= y

\* ends of a match of "There's no column.*in table" that starts at i
MatchEnds(text, i) ==
    {j \in (i + 1)..Len(text) :
        /\ text[j] = IN_TABLE
        /\ \A k \in (i + 1)..(j - 1) : text[k] # NEWLINE}

MatchStarts(text) ==
    {i \in 1..Len(text) : text[i] = NO_COLUMN /\ MatchEnds(text, i) # {}}

\* re.search(...) found something
re_search_matches(text) == MatchStarts(text) # {}

\* match.group(0): leftmost start, greedy '.*'
re_search_group0(text) ==
    LET i == SetMin(MatchStarts(text))
        j == SetMax(MatchEnds(text, i))
    IN SubSeq(text, i, j)

\* ------------------------------------------------------------ query results
\* A value held in a result mapping: None, a list (size = number of rows) or
\* a dict (its 'complete' entry, and the number of its other entries).
PyNone == [kind |-> "None", complete |-> "absent", size |-> 0]
PyList(n) == [kind |-> "list", complete |-> "absent", size |-> n]
PyDict(c, n) == [kind |-> "dict", complete |-> c, size |-> n]

\* bool(value)
Truthy(v) ==
    CASE v.kind = "None" -> FALSE
      [] v.kind = "list" -> v.size > 0
      [] v.kind = "dict" -> v.complete # "absent" \/ v.size > 0

\* value.get("complete") of a dict value
GetComplete(v) == IF v.complete = "absent" THEN None ELSE v.complete

QueryStatusValues ==
    {PyNone} \cup {PyDict(c, n) : c \in {"absent", None, PyTrue, PyFalse}, n \in {0, 1}}
RowsValues == {PyList(0), PyList(3)}

\* what process_query_model returns: a plain dict, or a pydantic BaseModel
\* whose attributes are named by the python field names
DictResults ==
    {[is_model |-> FALSE, fields |-> [k \in {"results"} |-> r]] : r \in RowsValues}
    \cup
    {[is_model |-> FALSE,
      fields |-> [k \in {"results", "query_status"} |-> IF k = "results" THEN r ELSE q]] :
        r \in RowsValues, q \in QueryStatusValues}
ModelResults ==
    {[is_model |-> TRUE,
      fields |-> [k \in {"results", "query_status", "from_"} |->
                    IF k = "results" THEN r ELSE IF k = "query_status" THEN q ELSE PyNone]] :
        r \in RowsValues, q \in QueryStatusValues}
EngineResults == DictResults \cup ModelResults
NoResult == [is_model |-> FALSE, fields |-> [k \in {} |-> PyNone]]
EmptyMap == [k \in {} |-> PyNone]

\* the public alias of a model field
FieldAlias(name) == IF name = "from_" THEN "from" ELSE name

\* BaseModel.model_dump(by_alias=True): every field, keyed by its alias
model_dump(model) ==
    [a \in {FieldAlias(k) : k \in DOMAIN model.fields} |->
        model.fields[CHOOSE k \in DOMAIN model.fields : FieldAlias(k) = a]]

\* lines 84-85: normalise the engine's result to a mapping
Normalize(r) == IF r.is_model THEN model_dump(r) ELSE r.fields

\* mapping.get(key)
MapGet(m, key) == IF key \in DOMAIN m THEN m[key] ELSE PyNone

HTTP_200_OK == 200
HTTP_202_ACCEPTED == 202

\* lines 86-90 with 'is False' weakened to falsiness
ResponseStatus_Falsy(m) ==
    IF Truthy(MapGet(m, "query_status"))
       /\ GetComplete(MapGet(m, "query_status")) \in {PyFalse, None}
    THEN HTTP_202_ACCEPTED
    ELSE HTTP_200_OK

\* lines 86-90
ResponseStatus(m) ==
    IF Truthy(MapGet(m, "query_status")) /\ GetComplete(MapGet(m, "query_status")) = PyFalse
    THEN HTTP_202_ACCEPTED
    ELSE HTTP_200_OK

\* ------------------------------------------------------------ run: requests
QueryKinds == {"HogQLQuery", "EventsQuery"}
ClientQueryIds == {None, "", "abc123"}
Requests == [query : QueryKinds, client_query_id : ClientQueryIds]
NoRequest == [query |-> "none", client_query_id |-> None]

\* posthog.hogql_queries.query_runner: ExecutionMode and ASYNC_MODES
ExecutionModes ==
    {"force_blocking", "blocking", "force_async", "async"}
ASYNC_MODES == {"force_async", "async"}

NoResolved == [query |-> "none", client_query_id |-> None, execution_mode |-> "none"]
NoCall == [called |-> FALSE, query |-> "none", execution_mode |-> "none",
           query_id |-> None, context_client_query_id |-> None]

\* how a request ended: a Response, or a raised exception
NoOutcome == [kind |-> "none", exc |-> NoExc, body |-> EmptyMap, status |-> 0]
Response(body, st) == [kind |-> "Response", exc |-> NoExc, body |-> body, status |-> st]
Raise(e) == [kind |-> "raise", exc |-> e, body |-> EmptyMap, status |-> 0]

VARIABLES
    pc,          \* position of the current run request in the handler
    data,        \* the parsed QueryRequest
    resolved,    \* what _process_query_request returned
    tags,        \* ambient query tags of the request: the client_query_id tag
    trace,       \* the collaborators the request has called, in order
    engine_call, \* the arguments of the process_query_model call
    exc,         \* the exception caught by run's try block
    result,      \* what process_query_model returned
    outcome      \* how the request ended

\* check_team_api_queries_concurrency: the shared cache and its callers
Callers == 1..NumCallers
Teams == {1, 2}                  \* two teams: entries are keyed per team
NoTeam == 0                      \* self.team is None
API_QUERIES_CONCURRENCY == "api_queries_concurrency"

\* line 43 with a key that leaves the team out
CacheKey_NoTeam(t) == <<"team", "feature", API_QUERIES_CONCURRENCY>>

\* line 43: f"team/{self.team_id}/feature/{AvailableFeature.API_QUERIES_CONCURRENCY}"
CacheKey(t) == <<"team", t, "feature", API_QUERIES_CONCURRENCY>>
CacheKeys == {CacheKey(t) : t \in Teams \cup {NoTeam}}

VARIABLES
    cache,       \* django cache: key -> None (no entry), "True" or "False"
    entitlement, \* per team: what is_feature_available answers now
    check_pc,    \* per caller: position in check_team_api_queries_concurrency
    team_id,     \* per caller: the team of its view
    new_val,     \* per caller: the local 'new_val'
    returned,    \* per caller: what its last call returned (None while running)
    calls,       \* per team: is_feature_available calls since the last clear
    overlap      \* per team: two calls for it were in flight together since then

\* ================================================================ Accoil
\* posthog/cdp/templates/accoil/template_accoil.py: the Hog code of the
\* destination template.  Hog values are records [t, v]: a string, a number
\* (v its numeral) or null; dictionaries are functions from keys to values.
\* The API key, the one input whose characters the code looks at, is a
\* sequence of characters.
MaxKeyLen == 4

Str(s) == [t |-> "str", v |-> s]
Num(n) == [t |-> "num", v |-> n]
Null == [t |-> "null", v |-> ""]
EmptyDict == [k \in {} |-> Null]

\* --------------------------------------------------- Hog standard library
\* empty(x): null and the empty string are empty, a number is not
empty(x) == x.t = "null" \/ (x.t = "str" /\ x.v = "")
\* empty(x) of a dictionary: it has no key
emptyDict(m) == DOMAIN m = {}
\* toString(x): a string is itself, a number its numeral, null is 'null'
toString(x) == IF x.t = "null" THEN Str("null") ELSE Str(x.v)
\* the numerals toFloat parses, each with the numeral of the float it gives
FloatOf == [n \in {"100", "100.0", "500", "500.0"} |->
              IF n \in {"100", "100.0"} THEN "100.0" ELSE "500.0"]
\* toFloat(x): a number is itself as a float, a numeric string is parsed
toFloat(x) == IF x.v \in DOMAIN FloatOf THEN Num(FloatOf[x.v]) ELSE Null
\* lower(s)
LowerChar(c) == IF c = "S" THEN "s" ELSE IF c = "T" THEN "t" ELSE c
lower(s) == [i \in 1..Len(s) |-> LowerChar(s[i])]
\* substring(s, start, length): 1-based, cut at the end of the string
substring(s, start, length) ==
    SubSeq(s, start, IF start + length - 1 <= Len(s) THEN start + length - 1 ELSE Len(s))
\* dictionary read: a missing key reads as null
DictGet(m, key) == IF key \in DOMAIN m THEN m[key] ELSE Null
\* dictionary write  m[key] := value
DictPut(m, key, value) == [k \in DOMAIN m \cup {key} |-> IF k = key THEN value ELSE m[k]]

\* base64Encode over the bytes of the text
KeyChars == {"s", "S", "t", "T", "g", "_"}
Ord == [c \in KeyChars \cup {":"} |->
          IF c = "s" THEN 115 ELSE IF c = "S" THEN 83 ELSE IF c = "t" THEN 116
          ELSE IF c = "T" THEN 84 ELSE IF c = "g" THEN 103 ELSE IF c = "_" THEN 95
          ELSE 58]
B64Alphabet ==
    << "A", "B", "C", "D", "E", "F", "G", "H", "I", "J", "K", "L", "M", "N", "O", "P",
       "Q", "R", "S", "T", "U", "V", "W", "X", "Y", "Z", "a", "b", "c", "d", "e", "f",
       "g", "h", "i", "j", "k", "l", "m", "n", "o", "p", "q", "r", "s", "t", "u", "v",
       "w", "x", "y", "z", "0", "1", "2", "3", "4", "5", "6", "7", "8", "9", "+", "/" >>
Sextet(n, i) == B64Alphabet[((n \div (64 ^ (3 - i))) % 64) + 1]
RECURSIVE B64Bytes(_)
B64Bytes(b) ==
    IF Len(b) = 0 THEN <<>>
    ELSE IF Len(b) = 1
    THEN LET n == b[1] * 65536 IN <<Sextet(n, 0), Sextet(n, 1), "=", "=">>
    ELSE IF Len(b) = 2
    THEN LET n == b[1] * 65536 + b[2] * 256 IN
         <<Sextet(n, 0), Sextet(n, 1), Sextet(n, 2), "=">>
    ELSE LET n == b[1] * 65536 + b[2] * 256 + b[3] IN
         <<Sextet(n, 0), Sextet(n, 1), Sextet(n, 2), Sextet(n, 3)>>
             \o B64Bytes(SubSeq(b, 4, Len(b)))
base64Encode(s) == B64Bytes([i \in 1..Len(s) |-> Ord[s[i]]])

\* ------------------------------------------------------ the template code
PROD_URL == "https://in.accoil.com/segment"
STAGING_URL == "https://instaging.accoil.com/segment"
BASIC == <<"B", "a", "s", "i", "c", " ">>

\* lines 15-24 without '$set' in the identify test
AccoilType_NoSet(ev) ==
    IF ev = "$pageview" THEN "page"
    ELSE IF ev = "$screen" THEN "screen"
    ELSE IF ev \in {"$identify"} THEN "identify"
    ELSE IF ev = "$groupidentify" THEN "group"
    ELSE "track"

\* lines 15-24: the call type
AccoilType(ev) ==
    IF ev = "$pageview" THEN "page"
    ELSE IF ev = "$screen" THEN "screen"
    ELSE IF ev \in {"$identify", "$set"} THEN "identify"
    ELSE IF ev = "$groupidentify" THEN "group"
    ELSE "track"

\* lines 56-58 and 78-80 without the test of the trait already there
MapEntry_Overwrite(traits, key, value) ==
    IF ~empty(value) THEN DictPut(traits, key, value) ELSE traits

\* lines 56-58 and 78-80: one turn of the mapping loop
MapEntry(traits, key, value) ==
    IF empty(DictGet(traits, key)) /\ ~empty(value)
    THEN DictPut(traits, key, value)
    ELSE traits

\* lines 55-59 and 77-81: the loop over the entries of the mapping
RECURSIVE MapLoop(_, _, _)
MapLoop(traits, mapping, keys) ==
    IF keys = {} THEN traits
    ELSE LET key == CHOOSE k \in keys : TRUE IN
         MapLoop(MapEntry(traits, key, mapping[key]), mapping, keys \ {key})

\* lines 54 and 76: the loop runs when the mapping is not empty
ApplyMapping(traits, mapping) ==
    IF ~emptyDict(mapping) THEN MapLoop(traits, mapping, DOMAIN mapping) ELSE traits

\* lines 47-51, 69-73: if (not empty(input)) traits.key := converted
PutIf(traits, input, key, converted) ==
    IF ~empty(input) THEN DictPut(traits, key, converted) ELSE traits

\* lines 44-62
IdentifyTraits(inp) ==
    LET t1 == PutIf(EmptyDict, inp.email, "email", toString(inp.email))
        t2 == PutIf(t1, inp.user_name, "name", toString(inp.user_name))
        t3 == PutIf(t2, inp.role, "role", toString(inp.role))
        t4 == PutIf(t3, inp.accountStatus, "accountStatus", toString(inp.accountStatus))
        t5 == PutIf(t4, inp.createdAt, "createdAt", toString(inp.createdAt))
    IN ApplyMapping(t5, inp.user_traits_mapping)

\* lines 66-84
GroupTraits(inp) ==
    LET t1 == PutIf(EmptyDict, inp.group_name, "name", toString(inp.group_name))
        t2 == PutIf(t1, inp.group_createdAt, "createdAt", toString(inp.group_createdAt))
        t3 == PutIf(t2, inp.group_status, "status", toString(inp.group_status))
        t4 == PutIf(t3, inp.group_plan, "plan", toString(inp.group_plan))
        t5 == PutIf(t4, inp.group_mrr, "mrr", toFloat(inp.group_mrr))
    IN ApplyMapping(t5, inp.group_traits_mapping)

\* lines 27-36: the base payload, with anonymousId when it is given
BaseBody(inp, type) ==
    LET base == DictPut(DictPut(DictPut(EmptyDict, "type", Str(type)),
                                "timestamp", toString(inp.timestamp)),
                        "userId", toString(inp.userId))
    IN PutIf(base, inp.anonymousId, "anonymousId", toString(inp.anonymousId))

\* lines 27-85 setting body.event whatever the call type
AccoilBody_AlwaysEvent(inp, ev) ==
    LET type == AccoilType(ev)
        base == DictPut(BaseBody(inp, type), "event", toString(inp.event))
    IN IF type = "track"
       THEN [fields |-> base, has_traits |-> FALSE, traits |-> EmptyDict]
       ELSE IF type = "page" \/ type = "screen"
       THEN [fields |-> DictPut(base, "name", toString(inp.name)),
             has_traits |-> FALSE, traits |-> EmptyDict]
       ELSE IF type = "identify"
       THEN [fields |-> base, has_traits |-> TRUE, traits |-> IdentifyTraits(inp)]
       ELSE [fields |-> DictPut(base, "groupId", toString(inp.groupId)),
             has_traits |-> TRUE, traits |-> GroupTraits(inp)]

\* lines 27-85: the body; its 'traits' entry, a dictionary, is kept apart
\* from the entries that are plain values
AccoilBody(inp, ev) ==
    LET type == AccoilType(ev)
        base == BaseBody(inp, type)
    IN IF type = "track"
       THEN [fields |-> DictPut(base, "event", toString(inp.event)),
             has_traits |-> FALSE, traits |-> EmptyDict]
       ELSE IF type = "page" \/ type = "screen"
       THEN [fields |-> DictPut(base, "name", toString(inp.name)),
             has_traits |-> FALSE, traits |-> EmptyDict]
       ELSE IF type = "identify"
       THEN [fields |-> base, has_traits |-> TRUE, traits |-> IdentifyTraits(inp)]
       ELSE IF type = "group"
       THEN [fields |-> DictPut(base, "groupId", toString(inp.groupId)),
             has_traits |-> TRUE, traits |-> GroupTraits(inp)]
       ELSE [fields |-> base, has_traits |-> FALSE, traits |-> EmptyDict]

\* lines 88-91 comparing the key as it is written
AccoilUrl_CaseSensitive(apiKey) ==
    IF substring(apiKey, 1, 4) = <<"s", "t", "g", "_">> THEN STAGING_URL ELSE PROD_URL

\* lines 88-91
AccoilUrl(apiKey) ==
    IF substring(lower(apiKey), 1, 4) = <<"s", "t", "g", "_">> THEN STAGING_URL ELSE PROD_URL

\* lines 94 and 99: 'Basic ' and base64Encode(f'{inputs.apiKey}:')
AccoilAuthorization(apiKey) == BASIC \o base64Encode(apiKey \o <<":">>)

\* ------------------------------------------------- the invocations checked
RECURSIVE SeqsUpTo(_, _)
SeqsUpTo(S, n) ==
    IF n = 0 THEN {<<>>}
    ELSE LET shorter == SeqsUpTo(S, n - 1) IN
         shorter \cup {Append(s, c) : s \in {x \in shorter : Len(x) = n - 1}, c \in S}
ApiKeys == SeqsUpTo(KeyChars, MaxKeyLen)
EventNames == {"$pageview", "$screen", "$identify", "$set", "$groupidentify",
               "custom_event", "$autocapture"}
MappingValues == {Str(""), Null, Str("mapped")}
Mappings(keys) == UNION {[ks -> MappingValues] : ks \in SUBSET keys}

\* create_inputs of the tests, with an API key of the characters modelled
DefaultInputs ==
    [apiKey |-> <<"t", "g", "_", "s">>,
     timestamp |-> Str("2024-10-24T23:03:50.941Z"), userId |-> Str("user123"),
     anonymousId |-> Str(""), event |-> Str("custom_event"), name |-> Str("Test Page"),
     email |-> Str("test@example.com"), user_name |-> Str("Test User"),
     role |-> Str(""), accountStatus |-> Str(""), createdAt |-> Str(""),
     user_traits_mapping |-> EmptyDict,
     groupId |-> Str("group_123"), group_name |-> Str("Test Group"),
     group_createdAt |-> Str(""), group_status |-> Str("active"),
     group_plan |-> Str("premium"), group_mrr |-> Num("100.0"),
     group_traits_mapping |-> EmptyDict]

\* the user inputs vary with the group inputs as in the tests, and the other
\* way round
IdentifyInputs ==
    {[DefaultInputs EXCEPT !.email = e, !.user_name = n, !.user_traits_mapping = m] :
        e \in {Str(""), Str("test@example.com")}, n \in {Null, Str("Test User")},
        m \in Mappings({"email", "company"})}
GroupInputs ==
    {[DefaultInputs EXCEPT !.group_name = n, !.group_mrr = r, !.group_traits_mapping = m] :
        n \in {Str(""), Str("Test Group")},
        r \in {Null, Str(""), Num("100.0"), Str("500.0")},
        m \in Mappings({"mrr", "industry"})}
BodyInputs ==
    {[i EXCEPT !.anonymousId = a, !.apiKey = k] :
        i \in IdentifyInputs \cup GroupInputs,
        a \in {Str(""), Null, Str("anon_1")},
        k \in {<<"t", "g", "_", "s">>, <<"S", "t", "g", "_">>}}
KeyInputs == {[DefaultInputs EXCEPT !.apiKey = k] : k \in ApiKeys}
AllInputs == BodyInputs \cup KeyInputs
NoInputs == [DefaultInputs EXCEPT !.apiKey = <<>>]
NoFetch == [url |-> "", method |-> "", authorization |-> <<>>,
            body |-> [fields |-> EmptyDict, has_traits |-> FALSE, traits |-> EmptyDict]]
ResStatuses == {200, 399, 400, 500}

\* one invocation of the Accoil destination function
VARIABLES
    hog_pc,      \* position in the template code: "idle", "fetch" or "done"
    event,       \* event.event of the invocation
    inputs,      \* the invocation's inputs
    fetch_call,  \* the fetch the code made: url, method, Authorization header, body
    fetches,     \* how many times the code called fetch
    res_status,  \* res.status of the response (0 before it arrives)
    thrown       \* the code ended in 'throw Error'

runVars == <<pc, data, resolved, tags, trace, engine_call, exc, result, outcome>>
cacheVars == <<cache, entitlement, check_pc, team_id, new_val, returned, calls, overlap>>
accoilVars == <<hog_pc, event, inputs, fetch_call, fetches, res_status, thrown>>
vars == <<runVars, cacheVars, accoilVars>>

InitAccoil ==
    /\ hog_pc = "idle"
    /\ event = ""
    /\ inputs = NoInputs
    /\ fetch_call = NoFetch
    /\ fetches = 0
    /\ res_status = 0
    /\ thrown = FALSE

Init ==
    /\ pc = "idle"
    /\ data = NoRequest
    /\ resolved = NoResolved
    /\ tags = None
    /\ trace = <<>>
    /\ engine_call = NoCall
    /\ exc = NoExc
    /\ result = NoResult
    /\ outcome = NoOutcome
    /\ cache = [k \in CacheKeys |-> None]
    /\ entitlement = [t \in Teams |-> FALSE]
    /\ check_pc = [p \in Callers |-> "idle"]
    /\ team_id = [p \in Callers |-> NoTeam]
    /\ new_val = [p \in Callers |-> None]
    /\ returned = [p \in Callers |-> None]
    /\ calls = [t \in Teams |-> 0]
    /\ overlap = [t \in Teams |-> FALSE]
    /\ InitAccoil

\* a request arrives (the previous one, if any, has been answered)
Request ==
    /\ pc \in {"idle", "done"}
    /\ \E d \in Requests : data' = d
    /\ pc' = "validate"
    /\ resolved' = NoResolved
    /\ tags' = None
    /\ trace' = <<>>
    /\ engine_call' = NoCall
    /\ exc' = NoExc
    /\ result' = NoResult
    /\ outcome' = NoOutcome
    /\ UNCHANGED <<cacheVars, accoilVars>>

\* lines 65-66 without the raise
RunValidate_NoReject ==
    /\ pc = "validate"
    /\ pc' = "resolve"
    /\ UNCHANGED <<data, resolved, tags, trace, engine_call, exc, result, outcome>>
    /\ UNCHANGED <<cacheVars, accoilVars>>

\* lines 65-66
RunValidate ==
    /\ pc = "validate"
    /\ IF data.query # "HogQLQuery"
       THEN /\ outcome' = Raise(ValidationError(ONLY_HOGQL, None))
            /\ pc' = "done"
       ELSE /\ outcome' = outcome
            /\ pc' = "resolve"
    /\ UNCHANGED <<data, resolved, tags, trace, engine_call, exc, result>>
    /\ UNCHANGED <<cacheVars, accoilVars>>

\* posthog.api.query._process_query_request: what it may return for a request.
\* The query and the caller's client_query_id are handed on as given; the
\* execution mode comes from the request's refresh hint and the team defaults.
_process_query_request(d) ==
    {[query |-> d.query, client_query_id |-> d.client_query_id, execution_mode |-> m] :
        m \in ExecutionModes}

\* lines 69-71: the resolver returns (query, client_query_id, execution_mode)
\* or raises
RunResolve ==
    /\ pc = "resolve"
    /\ trace' = Append(trace, "_process_query_request")
    /\ \/ /\ \E r \in _process_query_request(data) : resolved' = r
          /\ pc' = "tag"
          /\ exc' = exc
       \/ /\ \E e \in Exceptions : exc' = e
          /\ pc' = "except"
          /\ resolved' = resolved
    /\ UNCHANGED <<data, tags, engine_call, result, outcome>>
    /\ UNCHANGED <<cacheVars, accoilVars>>

\* lines 113-117
_tag_client_query_id(query_id) ==
    IF query_id = None
    THEN /\ tags' = tags
         /\ trace' = Append(trace, "_tag_client_query_id")
    ELSE /\ tags' = query_id
         /\ trace' = Append(trace, "_tag_client_query_id") \o <<"tag_queries">>

\* line 72
RunTag ==
    /\ pc = "tag"
    /\ _tag_client_query_id(resolved.client_query_id)
    /\ pc' = "check_mode"
    /\ UNCHANGED <<data, resolved, engine_call, exc, result, outcome>>
    /\ UNCHANGED <<cacheVars, accoilVars>>

\* lines 73-74 without the raise
RunCheckMode_NoReject ==
    /\ pc = "check_mode"
    /\ pc' = "dispatch"
    /\ UNCHANGED <<data, resolved, tags, trace, engine_call, exc, result, outcome>>
    /\ UNCHANGED <<cacheVars, accoilVars>>

\* lines 73-74
RunCheckMode ==
    /\ pc = "check_mode"
    /\ IF resolved.execution_mode \in ASYNC_MODES
       THEN /\ exc' = ValidationError(ONLY_SYNC, None)
            /\ pc' = "except"
       ELSE /\ exc' = exc
            /\ pc' = "dispatch"
    /\ UNCHANGED <<data, resolved, tags, trace, engine_call, result, outcome>>
    /\ UNCHANGED <<cacheVars, accoilVars>>

\* lines 76-83: the engine returns a result or raises
RunDispatch ==
    /\ pc = "dispatch"
    /\ trace' = Append(trace, "process_query_model")
    /\ engine_call' = [called |-> TRUE,
                       query |-> resolved.query,
                       execution_mode |-> resolved.execution_mode,
                       query_id |-> resolved.client_query_id,
                       context_client_query_id |-> tags]
    /\ \/ /\ \E r \in EngineResults : result' = r
          /\ pc' = "shape"
          /\ exc' = exc
       \/ /\ \E e \in Exceptions : exc' = e
          /\ pc' = "except"
          /\ result' = result
    /\ UNCHANGED <<data, resolved, tags, outcome>>
    /\ UNCHANGED <<cacheVars, accoilVars>>

\* lines 84-91
RunShape ==
    /\ pc = "shape"
    /\ outcome' = Response(Normalize(result), ResponseStatus(Normalize(result)))
    /\ pc' = "done"
    /\ UNCHANGED <<data, resolved, tags, trace, engine_call, exc, result>>
    /\ UNCHANGED <<cacheVars, accoilVars>>

\* ------------------------------------------------------ run: except clauses
\* What an except clause does with the caught exception: the exception that
\* leaves run, and whether capture_exception was called on the way.
Handled(e, captured) == [raised |-> e, captured |-> captured]

\* lines 92-93: ValidationError(str(e), getattr(e, "code_name", None))
EngineErrorClause(e) == Handled(ValidationError(e.str, e.code_name), FALSE)

\* lines 94-95 passing the code like the clause above
ResolutionErrorClause_WithCode(e) == Handled(ValidationError(e.str, e.code_name), FALSE)

\* lines 94-95: ValidationError(str(e))
ResolutionErrorClause(e) == Handled(ValidationError(e.str, None), FALSE)

\* lines 96-97 raising a ValidationError instead
LimitClause_Validation(e) == Handled(ValidationError(e.str, None), FALSE)

\* lines 96-97: Throttled(detail=str(c))
LimitClause(e) == Handled(Throttled(e.str), FALSE)

\* lines 104-106: the error has a non-empty 'message' that the pattern matches
ColumnErrorMatches(error) ==
    /\ error.has_message
    /\ error.message # <<>>
    /\ re_search_matches(error.message)

\* lines 108-110 without the note
ColumnError_NoNote(error) == ValidationError(re_search_group0(error.message), None)

\* lines 108-110: the ValidationError handle_column_ch_error raises
ColumnError(error) ==
    ValidationError(Append(re_search_group0(error.message), BETA_NOTE), None)

\* lines 98-101 swallowing the report
GenericClause_NoCapture(e) ==
    IF ColumnErrorMatches(e)
    THEN Handled(ColumnError(e), FALSE)
    ELSE Handled(e, FALSE)

\* lines 98-101: handle_column_ch_error, capture_exception, raise
GenericClause(e) ==
    IF ColumnErrorMatches(e)
    THEN Handled(ColumnError(e), FALSE)
    ELSE Handled(e, TRUE)

\* lines 92-101 consulting the missing-column rule before the class of the
\* exception
Classify_ColumnFirst(e) ==
    IF ColumnErrorMatches(e) THEN Handled(ColumnError(e), FALSE)
    ELSE CASE e.type \in EngineErrorTypes -> EngineErrorClause(e)
           [] e.type = "ResolutionError" -> ResolutionErrorClause(e)
           [] e.type = "ConcurrencyLimitExceeded" -> LimitClause(e)
           [] OTHER -> GenericClause(e)

\* lines 92-101: the first except clause that matches the exception's class
Classify(e) ==
    CASE e.type \in EngineErrorTypes -> EngineErrorClause(e)
      [] e.type = "ResolutionError" -> ResolutionErrorClause(e)
      [] e.type = "ConcurrencyLimitExceeded" -> LimitClause(e)
      [] OTHER -> GenericClause(e)

\* lines 92-101 trying the engine again when the limiter is exhausted
RunExcept_Retry ==
    /\ pc = "except"
    /\ IF exc.type = "ConcurrencyLimitExceeded"
       THEN /\ pc' = "dispatch"
            /\ UNCHANGED <<outcome, trace>>
       ELSE /\ outcome' = Raise(Classify(exc).raised)
            /\ trace' = IF Classify(exc).captured
                        THEN Append(trace, "capture_exception") ELSE trace
            /\ pc' = "done"
    /\ UNCHANGED <<data, resolved, tags, engine_call, exc, result>>
    /\ UNCHANGED <<cacheVars, accoilVars>>

\* lines 92-101
RunExcept ==
    /\ pc = "except"
    /\ outcome' = Raise(Classify(exc).raised)
    /\ trace' = IF Classify(exc).captured THEN Append(trace, "capture_exception") ELSE trace
    /\ pc' = "done"
    /\ UNCHANGED <<data, resolved, tags, engine_call, exc, result>>
    /\ UNCHANGED <<cacheVars, accoilVars>>

\* --------------------------------------- check_team_api_queries_concurrency
\* a caller's view starts a check for its team
CheckCall(p) ==
    /\ check_pc[p] = "idle"
    /\ \E t \in Teams \cup {NoTeam} :
        /\ team_id' = [team_id EXCEPT ![p] = t]
        /\ overlap' = [u \in Teams |->
                         overlap[u]
                         \/ (u = t /\ \E q \in Callers \ {p} : check_pc[q] # "idle" /\ team_id[q] = t)]
    /\ check_pc' = [check_pc EXCEPT ![p] = "get"]
    /\ new_val' = [new_val EXCEPT ![p] = None]
    /\ returned' = [returned EXCEPT ![p] = None]
    /\ UNCHANGED <<cache, entitlement, calls>>
    /\ UNCHANGED <<runVars, accoilVars>>

\* lines 44-47 and 51 testing 'if cached:' instead of 'is not None'
CheckGet_Truthy(p) ==
    LET cached == cache[CacheKey(team_id[p])] IN
    /\ check_pc[p] = "get"
    /\ IF cached = PyTrue
       THEN /\ returned' = [returned EXCEPT ![p] = cached]
            /\ check_pc' = [check_pc EXCEPT ![p] = "idle"]
       ELSE IF team_id[p] # NoTeam
       THEN /\ returned' = returned
            /\ check_pc' = [check_pc EXCEPT ![p] = "compute"]
       ELSE /\ returned' = [returned EXCEPT ![p] = PyFalse]
            /\ check_pc' = [check_pc EXCEPT ![p] = "idle"]
    /\ UNCHANGED <<cache, entitlement, team_id, new_val, calls, overlap>>
    /\ UNCHANGED <<runVars, accoilVars>>

\* lines 44-47 and 51 memoizing the False of an unresolvable team
CheckGet_CacheFalse(p) ==
    LET cached == cache[CacheKey(team_id[p])] IN
    /\ check_pc[p] = "get"
    /\ IF cached # None
       THEN /\ returned' = [returned EXCEPT ![p] = cached]
            /\ check_pc' = [check_pc EXCEPT ![p] = "idle"]
            /\ cache' = cache
       ELSE IF team_id[p] # NoTeam
       THEN /\ returned' = returned
            /\ check_pc' = [check_pc EXCEPT ![p] = "compute"]
            /\ cache' = cache
       ELSE /\ returned' = [returned EXCEPT ![p] = PyFalse]
            /\ check_pc' = [check_pc EXCEPT ![p] = "idle"]
            /\ cache' = [cache EXCEPT ![CacheKey(team_id[p])] = PyFalse]
    /\ UNCHANGED <<entitlement, team_id, new_val, calls, overlap>>
    /\ UNCHANGED <<runVars, accoilVars>>

\* lines 44-47 and 51: read the cache; return the entry if there is one,
\* go on to compute it if the team resolves, else return False
CheckGet(p) ==
    LET cached == cache[CacheKey(team_id[p])] IN
    /\ check_pc[p] = "get"
    /\ IF cached # None
       THEN /\ returned' = [returned EXCEPT ![p] = cached]
            /\ check_pc' = [check_pc EXCEPT ![p] = "idle"]
       ELSE IF team_id[p] # NoTeam
       THEN /\ returned' = returned
            /\ check_pc' = [check_pc EXCEPT ![p] = "compute"]
       ELSE /\ returned' = [returned EXCEPT ![p] = PyFalse]
            /\ check_pc' = [check_pc EXCEPT ![p] = "idle"]
    /\ UNCHANGED <<cache, entitlement, team_id, new_val, calls, overlap>>
    /\ UNCHANGED <<runVars, accoilVars>>

\* Organization.is_feature_available(feature) for the team's organization
is_feature_available(t) == IF entitlement[t] THEN PyTrue ELSE PyFalse

\* line 48
CheckCompute(p) ==
    /\ check_pc[p] = "compute"
    /\ new_val' = [new_val EXCEPT ![p] = is_feature_available(team_id[p])]
    /\ calls' = [calls EXCEPT ![team_id[p]] = @ + 1]
    /\ check_pc' = [check_pc EXCEPT ![p] = "set"]
    /\ UNCHANGED <<cache, entitlement, team_id, returned, overlap>>
    /\ UNCHANGED <<runVars, accoilVars>>

\* lines 49-50 returning False instead of the value just cached
CheckSet_ReturnFalse(p) ==
    /\ check_pc[p] = "set"
    /\ cache' = [cache EXCEPT ![CacheKey(team_id[p])] = new_val[p]]
    /\ returned' = [returned EXCEPT ![p] = PyFalse]
    /\ new_val' = [new_val EXCEPT ![p] = None]
    /\ check_pc' = [check_pc EXCEPT ![p] = "idle"]
    /\ UNCHANGED <<entitlement, team_id, calls, overlap>>
    /\ UNCHANGED <<runVars, accoilVars>>

\* lines 49-50
CheckSet(p) ==
    /\ check_pc[p] = "set"
    /\ cache' = [cache EXCEPT ![CacheKey(team_id[p])] = new_val[p]]
    /\ returned' = [returned EXCEPT ![p] = new_val[p]]
    /\ new_val' = [new_val EXCEPT ![p] = None]
    /\ check_pc' = [check_pc EXCEPT ![p] = "idle"]
    /\ UNCHANGED <<entitlement, team_id, calls, overlap>>
    /\ UNCHANGED <<runVars, accoilVars>>

\* the backing cache is cleared from outside
ClearCache ==
    /\ cache' = [k \in CacheKeys |-> None]
    /\ calls' = [t \in Teams |-> 0]
    /\ overlap' = [t \in Teams |->
                     Cardinality({q \in Callers : check_pc[q] # "idle" /\ team_id[q] = t}) >= 2]
    /\ UNCHANGED <<entitlement, check_pc, team_id, new_val, returned>>
    /\ UNCHANGED <<runVars, accoilVars>>

\* the organization is upgraded or downgraded
ChangeEntitlement ==
    /\ \E t \in Teams : entitlement' = [entitlement EXCEPT ![t] = ~@]
    /\ UNCHANGED <<cache, check_pc, team_id, new_val, returned, calls, overlap>>
    /\ UNCHANGED <<runVars, accoilVars>>

NextCache ==
    \/ \E p \in Callers : CheckCall(p)
    \/ \E p \in Callers : CheckGet(p)
    \/ \E p \in Callers : CheckCompute(p)
    \/ \E p \in Callers : CheckSet(p)
    \/ ClearCache
    \/ ChangeEntitlement

SpecCache == Init /\ [][NextCache]_vars

\* the checks of concurrent requests while every organization keeps the
\* entitlement it starts with
InitStable ==
    /\ pc = "idle"
    /\ data = NoRequest
    /\ resolved = NoResolved
    /\ tags = None
    /\ trace = <<>>
    /\ engine_call = NoCall
    /\ exc = NoExc
    /\ result = NoResult
    /\ outcome = NoOutcome
    /\ cache = [k \in CacheKeys |-> None]
    /\ entitlement \in [Teams -> BOOLEAN]
    /\ check_pc = [p \in Callers |-> "idle"]
    /\ team_id = [p \in Callers |-> NoTeam]
    /\ new_val = [p \in Callers |-> None]
    /\ returned = [p \in Callers |-> None]
    /\ calls = [t \in Teams |-> 0]
    /\ overlap = [t \in Teams |-> FALSE]
    /\ InitAccoil

NextCacheStable ==
    \/ \E p \in Callers : CheckCall(p)
    \/ \E p \in Callers : CheckGet(p)
    \/ \E p \in Callers : CheckCompute(p)
    \/ \E p \in Callers : CheckSet(p)
    \/ ClearCache

SpecCacheStable == InitStable /\ [][NextCacheStable]_vars

Next ==
    \/ Request
    \/ RunValidate
    \/ RunResolve
    \/ RunTag
    \/ RunCheckMode
    \/ RunDispatch
    \/ RunShape
    \/ RunExcept

Spec == Init /\ [][Next]_vars

\* ------------------------------------------------ the Accoil destination
\* lines 15-103: the function is invoked for an event and runs up to its
\* fetch
AccoilSend ==
    /\ hog_pc = "idle"
    /\ \E ev \in EventNames, inp \in AllInputs :
        /\ event' = ev
        /\ inputs' = inp
        /\ fetch_call' = [url |-> AccoilUrl(inp.apiKey),
                          method |-> "POST",
                          authorization |-> AccoilAuthorization(inp.apiKey),
                          body |-> AccoilBody(inp, ev)]
    /\ fetches' = fetches + 1
    /\ hog_pc' = "fetch"
    /\ UNCHANGED <<res_status, thrown>>
    /\ UNCHANGED <<runVars, cacheVars>>

\* lines 105-107 throwing for a status above 400 only
AccoilResponse_ThrowAbove ==
    /\ hog_pc = "fetch"
    /\ \E s \in ResStatuses :
        /\ res_status' = s
        /\ thrown' = (s > 400)
    /\ hog_pc' = "done"
    /\ UNCHANGED <<event, inputs, fetch_call, fetches>>
    /\ UNCHANGED <<runVars, cacheVars>>

\* lines 105-107: the response arrives; a status of 400 or more is thrown
AccoilResponse ==
    /\ hog_pc = "fetch"
    /\ \E s \in ResStatuses :
        /\ res_status' = s
        /\ thrown' = (s >= 400)
    /\ hog_pc' = "done"
    /\ UNCHANGED <<event, inputs, fetch_call, fetches>>
    /\ UNCHANGED <<runVars, cacheVars>>

NextAccoil ==
    \/ AccoilSend
    \/ AccoilResponse

SpecAccoil == Init /\ [][NextAccoil]_vars

\* ------------------------------------------------------- reading the trace
Count(seq, x) == Cardinality({i \in 1..Len(seq) : seq[i] = x})
Called(x) == Count(trace, x) > 0

\* the external kind of a raised exception
Kind(o) ==
    CASE o.kind = "Response" -> "Success"
      [] o.kind = "raise" /\ o.exc.type = "ValidationError" -> "ValidationFailure"
      [] o.kind = "raise" /\ o.exc.type = "Throttled" -> "ThrottlingFailure"
      [] o.kind = "raise" -> "UnhandledFailure"
      [] OTHER -> "none"

\* position of the first call of x in the trace (0 when it was not called)
FirstCall(x) == IF Called(x) THEN SetMin({i \in 1..Len(trace) : trace[i] = x}) ELSE 0

\* text ends with the beta-support note
EndsWithBetaNote(text) == Len(text) > 0 /\ text[Len(text)] = BETA_NOTE

\* e has a non-empty message in which "There's no column" is followed, on
\* the same line, by "in table"
MessageMatchesPattern(e) ==
    /\ e.has_message
    /\ \E i, j \in 1..Len(e.message) :
        /\ i < j
        /\ e.message[i] = NO_COLUMN
        /\ e.message[j] = IN_TABLE
        /\ \A k \in (i + 1)..(j - 1) : e.message[k] # NEWLINE

RecognizedTypes == EngineErrorTypes \cup {"ResolutionError", "ConcurrencyLimitExceeded"}

\* ------------------------------------------------------------------ claims

\* C1: a run request whose query is not a HogQLQuery ends in the
\* ValidationError 'This endpoint only supports HogQLQuery', and calls none of
\* the resolver, the tagger, the engine and the exception-tracking sink.
C1_WrongVariantRejected ==
    data.query \notin {"HogQLQuery", "none"} =>
        /\ pc \in {"validate", "done"}
        /\ trace = <<>>
        /\ ~engine_call.called
        /\ pc = "done" => outcome = Raise(ValidationError(ONLY_HOGQL, None))

C1_Witness ==
    /\ pc = "done"
    /\ data.query = "EventsQuery"
    /\ Kind(outcome) = "ValidationFailure"

\* C2: a run request whose resolved execution mode is in ASYNC_MODES ends in
\* the ValidationError 'only sync modes are supported (refresh param)', and
\* the engine is never dispatched for it.
C2_AsyncModeRejected ==
    resolved.execution_mode \in ASYNC_MODES =>
        /\ ~engine_call.called
        /\ ~Called("process_query_model")
        /\ pc = "done" => outcome = Raise(ValidationError(ONLY_SYNC, None))

C2_Witness ==
    /\ pc = "done"
    /\ resolved.execution_mode \in ASYNC_MODES
    /\ Kind(outcome) = "ValidationFailure"
    /\ outcome.exc.str = ONLY_SYNC

\* C4 (as claimed): a run request that has dispatched the engine evaluated the
\* tenant's feature check before the dispatch.
C4_GateBeforeDispatch ==
    engine_call.called =>
        /\ Called("check_team_api_queries_concurrency")
        /\ FirstCall("check_team_api_queries_concurrency") < FirstCall("process_query_model")

\* C5: when the exception caught in run is a ConcurrencyLimitExceeded, the
\* request ends in a Throttled whose detail is the exception's text, and the
\* exception-tracking sink is not called.
C5_LimitBecomesThrottled ==
    (pc = "done" /\ exc.type = "ConcurrencyLimitExceeded") =>
        /\ outcome = Raise(Throttled(exc.str))
        /\ Kind(outcome) = "ThrottlingFailure"
        /\ ~Called("capture_exception")

C5_Witness ==
    /\ pc = "done"
    /\ exc.type = "ConcurrencyLimitExceeded"
    /\ Kind(outcome) = "ThrottlingFailure"
    /\ outcome.exc.str = exc.str

\* C6 (as claimed): whatever its class, an exception whose message matches the
\* missing-column pattern ends the request in a ValidationError whose text
\* ends with the beta-support note, and the sink is not called.
C6_ColumnErrorAnyType ==
    (pc = "done" /\ exc.type \in RaisedTypes /\ MessageMatchesPattern(exc)) =>
        /\ Kind(outcome) = "ValidationFailure"
        /\ EndsWithBetaNote(outcome.exc.str)
        /\ ~Called("capture_exception")

\* C6 (amended): an exception of none of the classes caught by an earlier
\* except clause, whose message matches the missing-column pattern, ends the
\* request in a ValidationError whose text ends with the beta-support note,
\* and the sink is not called.
C6_ColumnErrorUnrecognizedType ==
    (pc = "done" /\ exc.type \in RaisedTypes \ RecognizedTypes /\ MessageMatchesPattern(exc)) =>
        /\ Kind(outcome) = "ValidationFailure"
        /\ EndsWithBetaNote(outcome.exc.str)
        /\ ~Called("capture_exception")

C6_Witness ==
    /\ pc = "done"
    /\ exc.type = "Exception"
    /\ exc.message = <<SOME_TEXT, NO_COLUMN, IN_TABLE>>
    /\ outcome.exc.str = <<NO_COLUMN, IN_TABLE, BETA_NOTE>>
    /\ Called("process_query_model")

\* C7: the response status is 202 exactly when the normalized result has a
\* query_status mapping whose 'complete' is False, else 200; the body is the
\* normalized result.
C7_StatusFromCompleteFlag ==
    (pc = "done" /\ outcome.kind = "Response") =>
        /\ outcome.body = Normalize(result)
        /\ outcome.status \in {HTTP_200_OK, HTTP_202_ACCEPTED}
        /\ outcome.status = HTTP_202_ACCEPTED <=>
            /\ "query_status" \in DOMAIN outcome.body
            /\ outcome.body["query_status"].kind = "dict"
            /\ outcome.body["query_status"].complete = PyFalse

C7_Witness ==
    /\ pc = "done"
    /\ result.is_model
    /\ outcome.status = HTTP_202_ACCEPTED
    /\ outcome.body["query_status"] = PyDict(PyFalse, 0)
    /\ "from" \in DOMAIN outcome.body

\* C8 (as claimed): with a nonempty client_query_id the tracing context holds
\* that id when the engine is dispatched; with an absent or empty one the
\* request leaves the context alone and never calls tag_queries.
C8_TagOnlyNonemptyId ==
    /\ (engine_call.called /\ data.client_query_id \notin {None, ""}) =>
            engine_call.context_client_query_id = data.client_query_id
    /\ (pc # "idle" /\ data.client_query_id \in {None, ""}) =>
            (tags = None /\ ~Called("tag_queries"))

\* C9: an ExposedHogQLError, ExposedCHQueryError or HogVMException becomes a
\* ValidationError with the exception's text and its code_name (None when it
\* has none); a ResolutionError becomes a ValidationError with the exception's
\* text and no code; the sink is called for none of them.
C9_RecognizedBecomeValidation ==
    /\ (pc = "done" /\ exc.type \in EngineErrorTypes) =>
            /\ outcome = Raise(ValidationError(exc.str, exc.code_name))
            /\ ~Called("capture_exception")
    /\ (pc = "done" /\ exc.type = "ResolutionError") =>
            /\ outcome = Raise(ValidationError(exc.str, None))
            /\ ~Called("capture_exception")

C9_Witness ==
    /\ pc = "done"
    /\ exc.type = "ResolutionError"
    /\ exc.code_name # None
    /\ Kind(outcome) = "ValidationFailure"
    /\ outcome.exc.code_name = None

C3_AtMostOncePerTeam == \A t \in Teams : calls[t] <= 1

\* C3 (amended): between two clears of the cache is_feature_available is
\* called at most once for a team whose checks did not overlap in time.
C3_AtMostOnceWithoutOverlap == \A t \in Teams : ~overlap[t] => calls[t] <= 1

\* two callers of one team have both returned False, one after the other, and
\* is_feature_available was called once
C3_Witness ==
    \E t \in Teams :
        /\ ~overlap[t]
        /\ calls[t] = 1
        /\ cache[CacheKey(t)] = PyFalse
        /\ \A p \in {1, 2} :
            /\ team_id[p] = t
            /\ check_pc[p] = "idle"
            /\ returned[p] = PyFalse


TerminalKinds == {"Success", "ValidationFailure", "ThrottlingFailure", "UnhandledFailure"}

\* C11: a run request ends in exactly one of Success, ValidationFailure,
\* ThrottlingFailure and UnhandledFailure: it has no outcome before it is done,
\* it can always take its next step until then, and on the way the resolver
\* and the engine are each called at most once (no failure path goes back).
C11_OneOutcomeNoRetry ==
    /\ pc = "done" => Kind(outcome) \in TerminalKinds
    /\ pc # "done" => outcome = NoOutcome
    /\ pc \notin {"idle", "done"} =>
          ENABLED (RunValidate \/ RunResolve \/ RunTag \/ RunCheckMode
                     \/ RunDispatch \/ RunShape \/ RunExcept)
    /\ Count(trace, "_process_query_request") <= 1
    /\ Count(trace, "process_query_model") <= 1

C11_Witness ==
    /\ pc = "done"
    /\ exc.type = "ConcurrencyLimitExceeded"
    /\ Kind(outcome) = "ThrottlingFailure"
    /\ Count(trace, "process_query_model") = 1


\* C12: a check that reads the cache when it holds an entry for its team
\* returns that entry, whatever is_feature_available would answer now, and
\* neither calls is_feature_available nor writes the cache.
C12_CachedValueReturned ==
    [][\A p \in Callers :
        (/\ check_pc[p] = "get"
         /\ check_pc'[p] # "get"
         /\ cache[CacheKey(team_id[p])] # None)
        => /\ check_pc'[p] = "idle"
           /\ returned'[p] = cache[CacheKey(team_id[p])]
           /\ cache' = cache
           /\ calls' = calls]_vars

\* both callers of a team have returned the cached False, computed once, while
\* the team's organization now has the feature
C12_Witness ==
    \E t \in Teams :
        /\ entitlement[t]
        /\ cache[CacheKey(t)] = PyFalse
        /\ calls[t] = 1
        /\ ~overlap[t]
        /\ \A p \in {1, 2} :
            /\ team_id[p] = t
            /\ check_pc[p] = "idle"
            /\ returned[p] = PyFalse


\* C13: a check for a view whose team does not resolve returns False without
\* calling is_feature_available and writes no cache entry, so the next check
\* finds no entry and looks at the team again.
C13_UnresolvedNotCached ==
    /\ cache[CacheKey(NoTeam)] = None
    /\ \A p \in Callers :
        /\ (check_pc[p] = "idle" /\ team_id[p] = NoTeam /\ returned[p] # None)
              => returned[p] = PyFalse
        /\ check_pc[p] \in {"compute", "set"} => team_id[p] # NoTeam

\* one caller has returned False for an unresolvable team and another is
\* reading the cache for it again, with still no entry
C13_Witness ==
    \E p, q \in Callers :
        /\ p # q
        /\ team_id[p] = NoTeam /\ check_pc[p] = "idle" /\ returned[p] = PyFalse
        /\ team_id[q] = NoTeam /\ check_pc[q] = "get"
        /\ cache[CacheKey(NoTeam)] = None


\* C18 (as claimed): the steps of a run request come in the order validation,
\* resolution with asynchronous-mode rejection, admission gate, tagging,
\* dispatch: the tracing context is tagged only once the mode check has
\* passed and after the gate, so a request of an asynchronous mode never
\* touches the tracing context.
C18_TagAfterModeCheck ==
    /\ Called("tag_queries") =>
          /\ pc # "check_mode"
          /\ resolved.execution_mode \notin ASYNC_MODES
          /\ Called("check_team_api_queries_concurrency")
    /\ resolved.execution_mode \in ASYNC_MODES => tags = None

\* C20 (as claimed): capture_exception is called for a run request only if
\* the request ends in an UnhandledFailure; a request that ends in a
\* ValidationFailure or a ThrottlingFailure reports nothing.
C20_SinkOnlyForUnhandled ==
    pc = "done" =>
        /\ Called("capture_exception") => Kind(outcome) = "UnhandledFailure"
        /\ Kind(outcome) \in {"ValidationFailure", "ThrottlingFailure"} =>
              Count(trace, "capture_exception") = 0


\* C19: while a team's entitlement does not change, every check of the team
\* returns the value of the entitlement, whatever the interleaving of the
\* callers' read, compute and write steps: the callers all return the same
\* value, the cache entry never holds another value, and once the callers
\* have finished after a computation the entry holds it.
C19_RacesAreBenign ==
    /\ \A p \in Callers :
          (team_id[p] # NoTeam /\ returned[p] # None) =>
              returned[p] = is_feature_available(team_id[p])
    /\ \A p \in Callers :
          (team_id[p] # NoTeam /\ new_val[p] # None) =>
              new_val[p] = is_feature_available(team_id[p])
    /\ \A t \in Teams :
          /\ cache[CacheKey(t)] \in {None, is_feature_available(t)}
          /\ (calls[t] >= 1 /\ \A p \in Callers : check_pc[p] = "idle") =>
                cache[CacheKey(t)] = is_feature_available(t)

C19_Witness ==
    \E t \in Teams :
        /\ entitlement[t]
        /\ overlap[t]
        /\ calls[t] = 2
        /\ cache[CacheKey(t)] = PyTrue
        /\ \A p \in {1, 2} :
              team_id[p] = t /\ check_pc[p] = "idle" /\ returned[p] = PyTrue


\* ------------------------------------------------- reading the fetch call
SentBody == fetch_call.body
SentType == fetch_call.body.fields["type"].v
SentKeys == DOMAIN fetch_call.body.fields \cup (IF fetch_call.body.has_traits THEN {"traits"} ELSE {})
NonEmpty(x) == x \notin {Null, Str("")}

\* base64 read back: the characters whose bytes the text encodes
B64Value(c) == IF c = "=" THEN 0 ELSE (CHOOSE i \in 1..64 : B64Alphabet[i] = c) - 1
Chr(n) == CHOOSE c \in DOMAIN Ord : Ord[c] = n
RECURSIVE B64Decode(_)
B64Decode(s) ==
    IF Len(s) < 4 THEN <<>>
    ELSE LET n == B64Value(s[1]) * 262144 + B64Value(s[2]) * 4096
                    + B64Value(s[3]) * 64 + B64Value(s[4])
             b1 == <<Chr(n \div 65536)>>
             b2 == IF s[3] = "=" THEN <<>> ELSE <<Chr((n \div 256) % 256)>>
             b3 == IF s[4] = "=" THEN <<>> ELSE <<Chr(n % 256)>>
         IN b1 \o b2 \o b3 \o B64Decode(SubSeq(s, 5, Len(s)))

\* C14: the call type comes from the event name alone: '$pageview' gives
\* 'page', '$screen' gives 'screen', '$identify' and '$set' give 'identify',
\* '$groupidentify' gives 'group', every other name gives 'track'; the
\* 'type' field of the body sent is that type.
C14_TypeFromEventName ==
    hog_pc # "idle" =>
        /\ "type" \in DOMAIN SentBody.fields
        /\ SentBody.fields["type"].t = "str"
        /\ event = "$pageview" => SentType = "page"
        /\ event = "$screen" => SentType = "screen"
        /\ event \in {"$identify", "$set"} => SentType = "identify"
        /\ event = "$groupidentify" => SentType = "group"
        /\ event \notin {"$pageview", "$screen", "$identify", "$set", "$groupidentify"} =>
              SentType = "track"

C14_Witness ==
    /\ hog_pc = "fetch"
    /\ event = "$set"
    /\ fetch_call.body.fields["type"] = Str("identify")
    /\ inputs.event = Str("custom_event")

\* C15: the request goes to the staging URL exactly when the API key starts
\* with 'stg_' in any mix of upper and lower case, and to the production URL
\* for every other key; in both cases the Authorization header is 'Basic '
\* followed by the base64 of the key, as it was written, and a colon.
C15_StagingByKeyPrefix ==
    hog_pc # "idle" =>
        LET key == inputs.apiKey
            staging == /\ Len(key) >= 4
                       /\ key[1] \in {"s", "S"}
                       /\ key[2] \in {"t", "T"}
                       /\ key[3] \in {"g", "G"}
                       /\ key[4] = "_"
            auth == fetch_call.authorization
        IN /\ staging => fetch_call.url = "https://instaging.accoil.com/segment"
           /\ ~staging => fetch_call.url = "https://in.accoil.com/segment"
           /\ Len(auth) >= 6
           /\ SubSeq(auth, 1, 6) = <<"B", "a", "s", "i", "c", " ">>
           /\ B64Decode(SubSeq(auth, 7, Len(auth))) = key \o <<":">>

C15_Witness ==
    /\ hog_pc = "done"
    /\ inputs.apiKey = <<"S", "T", "g", "_">>
    /\ fetch_call.url = STAGING_URL
    /\ fetch_call.authorization = BASIC \o <<"U", "1", "R", "n", "X", "z", "o", "=">>
    /\ res_status = 200
    /\ ~thrown

\* C16: the body sent carries only the fields of its call type: 'event'
\* only in a track call, 'name' only in a page or screen call, 'traits' only
\* in an identify or group call, 'groupId' only in a group call; 'type',
\* 'timestamp' and 'userId' are always there, and 'anonymousId' is there
\* exactly when the anonymousId input is not empty.
C16_FieldsOfCallType ==
    hog_pc # "idle" =>
        /\ SentKeys \subseteq {"type", "timestamp", "userId", "anonymousId",
                               "event", "name", "traits", "groupId"}
        /\ {"type", "timestamp", "userId"} \subseteq SentKeys
        /\ "event" \in SentKeys => SentType = "track"
        /\ "name" \in SentKeys => SentType \in {"page", "screen"}
        /\ "traits" \in SentKeys => SentType \in {"identify", "group"}
        /\ "groupId" \in SentKeys => SentType = "group"
        /\ "anonymousId" \in SentKeys <=> NonEmpty(inputs.anonymousId)

C16_Witness ==
    /\ hog_pc = "fetch"
    /\ event = "$groupidentify"
    /\ inputs.anonymousId = Str("anon_1")
    /\ NonEmpty(inputs.event) /\ NonEmpty(inputs.name)
    /\ SentKeys = {"type", "timestamp", "userId", "anonymousId", "groupId", "traits"}

\* the manual inputs of a call type, under the trait key each one sets
ManualInputs(type, inp) ==
    IF type = "identify"
    THEN [email |-> inp.email, name |-> inp.user_name, role |-> inp.role,
          accountStatus |-> inp.accountStatus, createdAt |-> inp.createdAt]
    ELSE [name |-> inp.group_name, createdAt |-> inp.group_createdAt,
          status |-> inp.group_status, plan |-> inp.group_plan, mrr |-> inp.group_mrr]
TraitsMapping(type, inp) ==
    IF type = "identify" THEN inp.user_traits_mapping ELSE inp.group_traits_mapping
\* the trait a non-empty manual input gives: its text, or for 'mrr' its number
ManualTrait(key, x) ==
    IF key = "mrr" THEN (IF x = Str("500.0") THEN Num("500.0") ELSE x) ELSE Str(x.v)

\* C17: in an identify or group call the manual traits win over the mapping:
\* a non-empty manual input is the trait under its key whatever the mapping
\* holds; an entry of the mapping is a trait exactly when its value is not
\* empty and no non-empty manual input has its key; an empty manual input
\* gives no trait key of its own.
C17_ManualTraitsWin ==
    (hog_pc # "idle" /\ SentBody.has_traits) =>
        LET manual == ManualInputs(SentType, inputs)
            mapping == TraitsMapping(SentType, inputs)
            traits == SentBody.traits
            IsManual(k) == k \in DOMAIN manual /\ NonEmpty(manual[k])
            IsMapped(k) == k \in DOMAIN mapping /\ NonEmpty(mapping[k]) /\ ~IsManual(k)
        IN /\ \A k \in DOMAIN manual :
                 IsManual(k) => k \in DOMAIN traits /\ traits[k] = ManualTrait(k, manual[k])
           /\ \A k \in DOMAIN mapping :
                 IsMapped(k) => k \in DOMAIN traits /\ traits[k] = mapping[k]
           /\ \A k \in DOMAIN traits : IsManual(k) \/ IsMapped(k)

C17_Witness ==
    /\ hog_pc = "fetch"
    /\ event = "$identify"
    /\ inputs.email = Str("test@example.com")
    /\ inputs.role = Str("")
    /\ inputs.user_traits_mapping = [k \in {"email", "company"} |-> Str("mapped")]
    /\ fetch_call.body.traits =
          [k \in {"email", "name", "company"} |->
              IF k = "email" THEN Str("test@example.com")
              ELSE IF k = "name" THEN Str("Test User") ELSE Str("mapped")]


\* text[i..j] is a match of the missing-column pattern in text
IsPatternMatch(text, i, j) ==
    /\ i < j
    /\ text[i] = NO_COLUMN
    /\ text[j] = IN_TABLE
    /\ \A k \in (i + 1)..(j - 1) : text[k] # NEWLINE

\* m is the text re.search finds in text: the leftmost match, at its longest
IsMatchedText(text, m) ==
    \E i, j \in 1..Len(text) :
        /\ IsPatternMatch(text, i, j)
        /\ \A i2, j2 \in 1..Len(text) :
              IsPatternMatch(text, i2, j2) => i <= i2 /\ (i2 = i => j2 <= j)
        /\ m = SubSeq(text, i, j)

\* C21: a failure caught in run is classified by the first category it falls
\* in, in the order engine/script errors, resolution errors, limiter
\* exhaustion, missing-column pattern: a failure of one of the first three
\* categories gets that category's outcome even if its message matches the
\* pattern; the pattern is applied to the other failures only, and only if
\* they have a non-empty 'message'; where it applies the ValidationError text
\* is the matched text followed by the beta-support note.
C21_FirstCategoryWins ==
    (pc = "done" /\ exc # NoExc) =>
        /\ exc.type \in EngineErrorTypes =>
              outcome = Raise(ValidationError(exc.str, exc.code_name))
        /\ exc.type = "ResolutionError" =>
              outcome = Raise(ValidationError(exc.str, None))
        /\ exc.type = "ConcurrencyLimitExceeded" =>
              outcome = Raise(Throttled(exc.str))
        /\ exc.type \in RecognizedTypes => ~EndsWithBetaNote(outcome.exc.str)
        /\ (exc.type \notin RecognizedTypes /\ MessageMatchesPattern(exc)) =>
              /\ Kind(outcome) = "ValidationFailure"
              /\ EndsWithBetaNote(outcome.exc.str)
              /\ IsMatchedText(exc.message, SubSeq(outcome.exc.str, 1, Len(outcome.exc.str) - 1))
        /\ (exc.type \notin RecognizedTypes /\ ~MessageMatchesPattern(exc)) =>
              outcome = Raise(exc)

C21_Witness ==
    /\ pc = "done"
    /\ exc.type = "ExposedCHQueryError"
    /\ exc.message = <<NO_COLUMN, SOME_TEXT, IN_TABLE>>
    /\ exc.str = <<SOME_TEXT>>
    /\ outcome = Raise(ValidationError(<<SOME_TEXT>>, exc.code_name))
    /\ ~Called("capture_exception")


\* C22: cache entries are isolated per team: a step of a check for team A
\* leaves the entry of every other team as it is, what the check reads and
\* returns on a hit is A's own entry, what it computes is A's entitlement,
\* and what it writes goes to A's entry, under every interleaving of the
\* callers.
C22_EntriesIsolatedPerTeam ==
    [][\A p \in Callers :
          check_pc'[p] # check_pc[p] =>
              LET a == team_id'[p] IN
              /\ \A b \in (Teams \cup {NoTeam}) \ {a} :
                    cache'[CacheKey(b)] = cache[CacheKey(b)]
              /\ (check_pc[p] = "get" /\ check_pc'[p] = "idle" /\ a # NoTeam) =>
                    returned'[p] = cache[CacheKey(a)]
              /\ check_pc[p] = "compute" =>
                    new_val'[p] = (IF entitlement[a] THEN PyTrue ELSE PyFalse)
              /\ check_pc[p] = "set" =>
                    /\ cache'[CacheKey(a)] = new_val[p]
                    /\ returned'[p] = new_val[p]]_vars

C22_Witness ==
    /\ entitlement[1] /\ ~entitlement[2]
    /\ team_id[1] = 1 /\ team_id[2] = 2
    /\ check_pc[1] = "idle" /\ check_pc[2] = "idle"
    /\ calls[1] = 1 /\ calls[2] = 1
    /\ cache[CacheKey(1)] = PyTrue /\ returned[1] = PyTrue
    /\ cache[CacheKey(2)] = PyFalse /\ returned[2] = PyFalse


\* C23: an invocation of the template calls fetch exactly once, as a POST of
\* the body it built, and ends in a thrown error exactly when the status of
\* the response is 400 or more; below 400 it ends without error.
C23_OneFetchThrowFrom400 ==
    /\ hog_pc = "idle" => fetches = 0 /\ ~thrown
    /\ hog_pc = "fetch" => ~thrown
    /\ hog_pc \in {"fetch", "done"} =>
          /\ fetches = 1
          /\ fetch_call.method = "POST"
          /\ fetch_call.body = AccoilBody(inputs, event)
    /\ hog_pc = "done" =>
          /\ res_status >= 400 => thrown
          /\ res_status < 400 => ~thrown

C23_Witness ==
    /\ hog_pc = "done"
    /\ res_status = 400
    /\ thrown
    /\ fetches = 1
    /\ fetch_call.method = "POST"
    /\ fetch_call.body.fields["type"] = Str("track")

====
